---- MODULE Spec2Model ----
(***************************************************************************)
(* The request router of the puzzle validator (the default export that     *)
(* registers the six routes) together with the adapters it calls: the      *)
(* puzzle store (get, next, review), the auth store (username, save) and   *)
(* the OAuth client (getToken, getUserInfo).                               *)
(*                                                                         *)
(* Every handler is an async function: it runs to its next `await`, and    *)
(* other requests may run in between.  One action of the model is one such *)
(* segment: the awaited adapter call completes and the handler runs on to  *)
(* its next await or to its response.                                      *)
(***************************************************************************)
EXTENDS Integers, Sequences, FiniteSets, TLC

(***************************************************************************)
(* Bounds of the model.                                                    *)
(***************************************************************************)
NumPuzzles  == 2    \* puzzles in the store, ids 1..NumPuzzles
NumSessions == 2    \* browser sessions
MaxReq      == 2    \* requests received in one behaviour

PuzzleIds == 1..NumPuzzles
Sessions  == 1..NumSessions
Requests  == 1..MaxReq

(***************************************************************************)
(* JavaScript values.                                                      *)
(*   A string that is parsed is a sequence of one-character strings.       *)
(*   `undefined` (a query or path parameter that is absent) is the one     *)
(*   element sequence <<"undefined">>: parseInt converts its argument to a *)
(*   string first, and "undefined" does not start with a digit.            *)
(*   A number is <<"int", n>> or NaN.                                      *)
(*   A value that may be null (a puzzle, a username) is None for null and  *)
(*   Some(v) for the value v.                                              *)
(***************************************************************************)
Undefined == <<"undefined">>
NaN       == <<"NaN">>
Num(n)    == <<"int", n>>
None      == <<>>
Some(v)   == <<v>>
Get(o)    == o[1]

Digits     == <<"0", "1", "2", "3", "4", "5", "6", "7", "8", "9">>
IsDigit(c) == \E i \in 1..10 : Digits[i] = c
DigitVal(c) == (CHOOSE i \in 1..10 : Digits[i] = c) - 1
WhiteSpace == {" "}

RECURSIVE StripLeft(_)
StripLeft(s) ==
    IF s # <<>> /\ Head(s) \in WhiteSpace THEN StripLeft(Tail(s)) ELSE s

\* the value of the longest prefix of digits of s, continuing from acc
RECURSIVE DigitPrefix(_, _)
DigitPrefix(s, acc) ==
    IF s # <<>> /\ IsDigit(Head(s))
    THEN DigitPrefix(Tail(s), 10 * acc + DigitVal(Head(s)))
    ELSE acc

\* parseInt(string) with the default radix: leading white space is skipped,
\* one sign is accepted, the longest prefix of decimal digits is the value and
\* whatever follows is ignored; without a digit the result is NaN.  (The "0x"
\* prefix is not among the inputs enumerated below.)
parseInt(str) ==
    LET s    == StripLeft(str)
        neg  == s # <<>> /\ Head(s) = "-"
        body == IF s # <<>> /\ Head(s) \in {"-", "+"} THEN Tail(s) ELSE s
    IN  IF body = <<>> \/ ~IsDigit(Head(body))
        THEN NaN
        ELSE Num(IF neg THEN 0 - DigitPrefix(body, 0) ELSE DigitPrefix(body, 0))

\* the string is nothing but decimal digits: a non-negative integer
IsNonNegIntString(str) ==
    /\ str # <<>>
    /\ \A i \in 1..Len(str) : IsDigit(str[i])

\* the string is an optionally signed run of decimal digits: an integer
IsIntString(str) ==
    \/ IsNonNegIntString(str)
    \/ /\ str # <<>>
       /\ Head(str) \in {"-", "+"}
       /\ IsNonNegIntString(Tail(str))

(***************************************************************************)
(* The inputs of the requests.                                             *)
(***************************************************************************)
IdParams    == { <<"1">>, <<"2">>, <<"3">>, <<"-", "1">>, <<"x">>, <<"1", "x">> }
ScoreParams == { <<"5">>, <<"x">>, Undefined }
RatingParams == { <<"7">>, <<"1", "x">> }
Comments    == { "ok" }
Codes       == { "code-bob", "code-bad" }

\* a session field that was never set, and an authId no saved credential has
MissingAuthId == "undefined"
StaleAuthId   == "stale"
SavedAuthId   == "auth0"

(***************************************************************************)
(* State.                                                                  *)
(*   reviews   the puzzle collection: reviews[p] is the sequence of        *)
(*             reviews attached to puzzle p (the set of puzzles is fixed:  *)
(*             the router never creates or deletes one)                    *)
(*   authStore the auth collection: authId -> (token, username)            *)
(*   session   session[s] is the authId field of session s; a handler      *)
(*             reads and writes it when it reaches the statement that      *)
(*             does                                                        *)
(*   req       the requests: route, inputs, the handler's position and     *)
(*             locals, the response sent and how many responses the        *)
(*             handler has sent                                            *)
(*   log       what the server wrote to its console                        *)
(*   getCalls  the ids env.mongo.puzzle.get has been called with           *)
(*   client    one browser page running the client: the controller's data, *)
(*             the keyboard, the calls its key bindings made and the       *)
(*             review submissions in flight                                *)
(***************************************************************************)
VARIABLES reviews, authStore, session, req, log, getCalls, client

serverVars == <<reviews, authStore, session, req, log, getCalls>>
vars == <<reviews, authStore, session, req, log, getCalls, client>>

(***************************************************************************)
(* Responses.                                                              *)
(***************************************************************************)
NoResponse     == [kind |-> "none"]
End(status)    == [kind |-> "end", status |-> status]
Send(body)     == [kind |-> "send", status |-> 200, body |-> body]
Redirect(loc)  == [kind |-> "redirect", status |-> 302, location |-> loc]
Json(status, body) == [kind |-> "json", status |-> status, body |-> body]
\* what the framework's own error handler sends when it is handed an error
FrameworkError == [kind |-> "error", status |-> 500]

LoginPrompt       == [page |-> "login"]
InteractivePage(data) == [page |-> "interactive", data |-> data]
htmlPage(content) == [html |-> content]
JSONstringify(data) == [json |-> data]

authorizationUri == "https://provider/authorize"
AuthFailedMessage == "Authentication failed"

(***************************************************************************)
(* The adapters.                                                           *)
(***************************************************************************)
\* env.mongo.puzzle.get(id): the puzzle with that id, or null
PuzzleGet(id) ==
    IF \E p \in PuzzleIds : id = Num(p)
    THEN Some(CHOOSE p \in PuzzleIds : id = Num(p))
    ELSE None

\* env.mongo.puzzle.next(): the results the store may give: any puzzle
\* that has no review yet (which one is the store's policy), or null when the
\* backlog is exhausted
PuzzleNext ==
    IF \E p \in PuzzleIds : reviews[p] = <<>>
    THEN { Some(p) : p \in { q \in PuzzleIds : reviews[q] = <<>> } }
    ELSE { None }

\* env.mongo.puzzle.review(puzzle, review): the collection after the append
PuzzleReview(puzzle, review) ==
    [reviews EXCEPT ![puzzle] = Append(@, review)]

\* env.mongo.auth.username(authId): the username saved under authId, or null
AuthUsername(authId) ==
    IF authId \in DOMAIN authStore
    THEN Some(authStore[authId].username)
    ELSE None

\* env.mongo.auth.save(token, username): a new authId and the collection
\* with the credential saved under it
NewAuthId == "auth" \o ToString(Cardinality(DOMAIN authStore))
AuthSave(token, username) ==
    [a \in DOMAIN authStore \cup {NewAuthId} |->
        IF a = NewAuthId THEN [token |-> token, username |-> username]
                         ELSE authStore[a]]

\* An awaited call either resolves to a value or rejects with an Error
Resolved(v)   == [ok |-> TRUE, value |-> v]
Rejected(msg) == [ok |-> FALSE, message |-> msg]

\* oauth.getToken(code): the provider issues a token for a code it accepts;
\* the call rejects for any other code, or when the provider cannot be reached
oauthGetToken(code) ==
    IF code = "code-bob"
    THEN { Resolved([token |-> "token-bob"]), Rejected("provider unreachable") }
    ELSE { Rejected("invalid_grant: " \o code) }

\* oauth.getUserInfo(token): the identity the provider reports for the token
oauthGetUserInfo(token) ==
    IF token.token = "token-bob"
    THEN { Resolved([username |-> "bob"]), Rejected("provider unreachable") }
    ELSE { Rejected("invalid token: " \o token.token) }

\* whether a write to the document store is persisted or fails
WriteOutcomes == { Resolved("written"), Rejected("write failed") }

(***************************************************************************)
(* Requests.                                                               *)
(***************************************************************************)
Routes == { "/", "/puzzle/:id", "/review/:id", "/logout", "/auth",
            "/oauth-callback" }

Idle ==
    [route |-> "none", sess |-> 0, pc |-> "idle", id |-> <<>>,
     puzzle |-> None, username |-> None, query |-> None,
     code |-> "", token |-> None, user |-> None, resp |-> NoResponse,
     sent |-> 0]

\* a request arrives on session s: the first free request, in order
Arrives(r, s) ==
    /\ req[r].pc = "idle"
    /\ \A q \in Requests : q < r => req[q].pc # "idle"
    /\ s \in Sessions

\* the handler returns without having sent anything
Respond_NothingSent(rec, resp) == [rec EXCEPT !.pc = "done"]

\* the handler of request r has sent resp and returned
Respond(rec, resp) ==
    [rec EXCEPT !.pc = "done", !.resp = resp, !.sent = @ + 1]

\* `!puzzle`
NoPuzzle(puzzle) == puzzle = None

\* the check left out: every caller counts as authenticated
NoUsername_Never(username) == FALSE

\* `!username`: null and the empty string are both falsy
NoUsername(username) == username = None \/ username = Some("")

\* `session?.authId || ''`
AuthIdOrEmpty(authId) ==
    IF authId = MissingAuthId \/ authId = "" THEN "" ELSE authId

(***************************************************************************)
(* GET / and GET /puzzle/:id, and renderPuzzle.                            *)
(***************************************************************************)
\* a missing puzzle answered with the login prompt instead of 404
RenderPuzzleStart_LoginPrompt(rec, puzzle) ==
    IF NoPuzzle(puzzle)
    THEN Respond(rec, Send(htmlPage(LoginPrompt)))
    ELSE [rec EXCEPT !.pc = "render", !.puzzle = puzzle]

\* renderPuzzle up to its await: 404 without a puzzle, else it goes on to
\* resolve the username
RenderPuzzleStart(rec, puzzle) ==
    IF NoPuzzle(puzzle)
    THEN Respond(rec, End(404))
    ELSE [rec EXCEPT !.pc = "render", !.puzzle = puzzle]

\* the login prompt never shown: the interactive page for every caller
RenderPuzzlePage_NoLoginPrompt(username, puzzle) ==
    Send(htmlPage(InteractivePage([username |-> username, puzzle |-> puzzle])))

\* the page renderPuzzle sends once the username is resolved
RenderPuzzlePage(username, puzzle) ==
    IF NoUsername(username)
    THEN Send(htmlPage(LoginPrompt))
    ELSE Send(htmlPage(InteractivePage(
             [username |-> username, puzzle |-> puzzle])))

\* the front page fetching a fixed puzzle by id instead of the next one
GetRoot_GetById(r, s) ==
    /\ Arrives(r, s)
    /\ req' = [req EXCEPT ![r] =
                 RenderPuzzleStart(
                     [Idle EXCEPT !.route = "/", !.sess = s], PuzzleGet(Num(1)))]
    /\ UNCHANGED <<reviews, authStore, session, log, getCalls, client>>

GetRoot(r, s) ==
    /\ Arrives(r, s)
    /\ \E puzzle \in PuzzleNext :
          req' = [req EXCEPT ![r] =
                    RenderPuzzleStart(
                        [Idle EXCEPT !.route = "/", !.sess = s], puzzle)]
    /\ UNCHANGED <<reviews, authStore, session, log, getCalls, client>>

GetPuzzle(r, s, id) ==
    /\ Arrives(r, s)
    /\ req' = [req EXCEPT ![r] =
                 RenderPuzzleStart(
                     [Idle EXCEPT !.route = "/puzzle/:id", !.sess = s, !.id = id],
                     PuzzleGet(parseInt(id)))]
    /\ getCalls' = getCalls \cup { parseInt(id) }
    /\ UNCHANGED <<reviews, authStore, session, log, client>>

RenderPuzzle(r) ==
    /\ req[r].pc = "render"
    /\ LET username == AuthUsername(AuthIdOrEmpty(session[req[r].sess]))
       IN  req' = [req EXCEPT ![r] =
                     Respond([@ EXCEPT !.username = username],
                             RenderPuzzlePage(username, req[r].puzzle))]
    /\ UNCHANGED <<reviews, authStore, session, log, getCalls, client>>

(***************************************************************************)
(* POST /review/:id                                                        *)
(***************************************************************************)
\* the review object handed to the store (its `at` timestamp is left out:
\* nothing reads it)
ReviewOf(username, query) ==
    [by      |-> username,
     score   |-> parseInt(query.score),
     comment |-> query.comment,
     rating  |-> parseInt(query.rating)]

\* what becomes of a request whose async handler rejects with nothing to
\* catch it: the framework either never answers it or hands the error to its
\* own error handler, depending on the framework's version
UnhandledRejection == { NoResponse, FrameworkError }

\* the reviewed puzzle sent back in place of the next one
ReviewResponse_SamePuzzle(username, puzzle, next) ==
    Send(JSONstringify([username |-> username, puzzle |-> puzzle]))

\* the response to a review: the boot payload for the next puzzle
ReviewResponse(username, puzzle, next) ==
    Send(JSONstringify([username |-> username, puzzle |-> next]))

PostReview(r, s, id) ==
    /\ Arrives(r, s)
    /\ LET rec    == [Idle EXCEPT !.route = "/review/:id", !.sess = s, !.id = id]
           puzzle == PuzzleGet(parseInt(id))
       IN  req' = [req EXCEPT ![r] =
                     IF NoPuzzle(puzzle)
                     THEN Respond(rec, End(404))
                     ELSE [rec EXCEPT !.pc = "username", !.puzzle = puzzle]]
    /\ getCalls' = getCalls \cup { parseInt(id) }
    /\ UNCHANGED <<reviews, authStore, session, log, client>>

ReviewUsername(r) ==
    /\ req[r].pc = "username"
    /\ LET username == AuthUsername(AuthIdOrEmpty(session[req[r].sess]))
       IN  req' = [req EXCEPT ![r] =
                     IF NoUsername(username)
                     THEN Respond([@ EXCEPT !.username = username], End(403))
                     ELSE [@ EXCEPT !.pc = "review", !.username = username]]
    /\ UNCHANGED <<reviews, authStore, session, log, getCalls, client>>

ReviewAppend(r) ==
    /\ req[r].pc = "review"
    /\ \E score \in ScoreParams, comment \in Comments, rating \in RatingParams,
          outcome \in WriteOutcomes :
          LET query == [score |-> score, comment |-> comment, rating |-> rating]
          IN  IF outcome.ok
              THEN /\ reviews' = PuzzleReview(Get(req[r].puzzle),
                                    ReviewOf(req[r].username, query))
                   /\ req' = [req EXCEPT ![r].pc = "next",
                                         ![r].query = Some(query)]
              ELSE /\ \E resp \in UnhandledRejection :
                         req' = [req EXCEPT ![r].pc = "rejected",
                                            ![r].query = Some(query),
                                            ![r].resp = resp]
                   /\ UNCHANGED reviews
    /\ UNCHANGED <<authStore, session, log, getCalls, client>>

\* the next-puzzle fetch skipped: the handler answers with no puzzle at all
ReviewNext_NoFetch(r) ==
    /\ req[r].pc = "next"
    /\ req' = [req EXCEPT ![r] =
                 Respond(@, ReviewResponse(req[r].username, req[r].puzzle, None))]
    /\ UNCHANGED <<reviews, authStore, session, log, getCalls, client>>

ReviewNext(r) ==
    /\ req[r].pc = "next"
    /\ \E next \in PuzzleNext :
          req' = [req EXCEPT ![r] =
                    IF NoPuzzle(next)
                    THEN Respond(@, End(404))
                    ELSE Respond(@, ReviewResponse(req[r].username,
                                                   req[r].puzzle, next))]
    /\ UNCHANGED <<reviews, authStore, session, log, getCalls, client>>

(***************************************************************************)
(* GET /logout and GET /auth                                               *)
(***************************************************************************)
\* the redirect sent without clearing the session
Logout_KeepsAuthId(r, s) ==
    /\ Arrives(r, s)
    /\ req' = [req EXCEPT ![r] =
                 Respond([Idle EXCEPT !.route = "/logout", !.sess = s],
                         Redirect("/"))]
    /\ UNCHANGED <<reviews, authStore, session, log, getCalls, client>>

Logout(r, s) ==
    /\ Arrives(r, s)
    /\ session' = [session EXCEPT ![s] = ""]
    /\ req' = [req EXCEPT ![r] =
                 Respond([Idle EXCEPT !.route = "/logout", !.sess = s],
                         Redirect("/"))]
    /\ UNCHANGED <<reviews, authStore, log, getCalls, client>>

\* starting a new login drops the identity the session holds
Auth_ClearsSession(r, s) ==
    /\ Arrives(r, s)
    /\ log' = log \cup { authorizationUri }
    /\ session' = [session EXCEPT ![s] = ""]
    /\ req' = [req EXCEPT ![r] =
                 Respond([Idle EXCEPT !.route = "/auth", !.sess = s],
                         Redirect(authorizationUri))]
    /\ UNCHANGED <<reviews, authStore, getCalls, client>>

Auth(r, s) ==
    /\ Arrives(r, s)
    /\ log' = log \cup { authorizationUri }
    /\ req' = [req EXCEPT ![r] =
                 Respond([Idle EXCEPT !.route = "/auth", !.sess = s],
                         Redirect(authorizationUri))]
    /\ UNCHANGED <<reviews, authStore, session, getCalls, client>>

(***************************************************************************)
(* GET /oauth-callback                                                     *)
(***************************************************************************)
\* the line the catch block writes to the console
AccessTokenError(message) == "Access Token Error " \o message

\* the error's message handed to the client
AuthenticationFailed_LeaksMessage(message) == Json(500, message)

\* the response of the catch block
AuthenticationFailed(message) == Json(500, AuthFailedMessage)

\* the catch block: log the error, answer 500
Catch(r, rec, message) ==
    /\ log' = log \cup { AccessTokenError(message) }
    /\ req' = [req EXCEPT ![r] = Respond(rec, AuthenticationFailed(message))]

OauthCallback(r, s, code) ==
    /\ Arrives(r, s)
    /\ LET rec == [Idle EXCEPT !.route = "/oauth-callback", !.sess = s,
                              !.code = code]
       IN  \E out \in oauthGetToken(code) :
              IF out.ok
              THEN /\ req' = [req EXCEPT ![r] =
                                [rec EXCEPT !.pc = "userinfo",
                                            !.token = Some(out.value)]]
                   /\ UNCHANGED log
              ELSE Catch(r, rec, out.message)
    /\ UNCHANGED <<reviews, authStore, session, getCalls, client>>

OauthUserInfo(r) ==
    /\ req[r].pc = "userinfo"
    /\ \E out \in oauthGetUserInfo(Get(req[r].token)) :
          IF out.ok
          THEN /\ req' = [req EXCEPT ![r].pc = "save",
                                     ![r].user = Some(out.value)]
               /\ UNCHANGED log
          ELSE Catch(r, req[r], out.message)
    /\ UNCHANGED <<reviews, authStore, session, getCalls, client>>

\* the session given the provider's token instead of the saved authId
OauthSave_SessionGetsToken(r) ==
    /\ req[r].pc = "save"
    /\ authStore' = AuthSave(Get(req[r].token).token, Get(req[r].user).username)
    /\ session' = [session EXCEPT ![req[r].sess] = Get(req[r].token).token]
    /\ req' = [req EXCEPT ![r] = Respond(@, Redirect("/"))]
    /\ UNCHANGED <<reviews, log, getCalls, client>>

OauthSave(r) ==
    /\ req[r].pc = "save"
    /\ \E out \in WriteOutcomes :
          IF out.ok
          THEN /\ authStore' = AuthSave(Get(req[r].token).token,
                                        Get(req[r].user).username)
               /\ session' = [session EXCEPT ![req[r].sess] = NewAuthId]
               /\ req' = [req EXCEPT ![r] = Respond(@, Redirect("/"))]
               /\ UNCHANGED log
          ELSE /\ Catch(r, req[r], out.message)
               /\ UNCHANGED <<authStore, session>>
    /\ UNCHANGED <<reviews, getCalls, client>>

(***************************************************************************)
(* The client: start(data) and its key bindings.                           *)
(*                                                                         *)
(* start builds the controller from the boot payload, draws it and binds   *)
(* five keys.  The controller's methods are not part of these sources:     *)
(* back, forward and review do what the design says of them.  The server   *)
(* is seen from the page as the answers to its submissions.                *)
(***************************************************************************)
MaxKeys == 3    \* key events handled in one behaviour

Keys == { "left", "right", "backspace", "enter", "a" }

\* ServerData: the boot payload and every answer to a review
ServerData(username, puzzle) == [username |-> username, puzzle |-> puzzle]

\* the page after start(data): nothing held, nothing called, nothing in flight
Started(data) ==
    [data    |-> data,
     cursor  |-> 0,
     held    |-> "none",
     events  |-> 0,
     event   |-> [key |-> "none", repeat |-> FALSE],
     calls   |-> <<>>,
     pending |-> <<>>,
     posts   |-> 0,
     clicks  |-> 0,
     error   |-> FALSE]

\* a call of a controller method made by a key binding
Call(method, arg) == [method |-> method, arg |-> arg]

\* ctrl.back(): the display cursor moves back; the server is not contacted
ctrlBack(c) ==
    [c EXCEPT !.calls = Append(@, Call("back", "")),
              !.cursor = IF @ > 0 THEN @ - 1 ELSE 0]

\* ctrl.forward(): the display cursor moves on; the server is not contacted
ctrlForward(c) ==
    [c EXCEPT !.calls = Append(@, Call("forward", "")),
              !.cursor = @ + 1]

\* ctrl.review(accept): the review of the displayed puzzle is posted
ctrlReview(c, accept) ==
    [c EXCEPT !.calls = Append(@, Call("review", accept)),
              !.pending = Append(@, [puzzle |-> c.data.puzzle, accept |-> accept]),
              !.posts = @ + 1]

\* the guard left out: the callback runs for every event
noRepeat_Always(repeat) == TRUE

\* noRepeat(f): whether f is called for an event whose `repeat` flag is given
noRepeat(repeat) == ~repeat

\* the keyboard delivers a keydown for key k: a first press, or an
\* auto-repeat of the key that is held down
KeyDown(k, repeat) ==
    /\ client.events < MaxKeys
    /\ repeat <=> client.held = k

\* the page as the event's handler finds it: k is down, the event is counted
Event(c, k, repeat) ==
    [c EXCEPT !.held = k,
              !.events = @ + 1,
              !.event = [key |-> k, repeat |-> repeat]]

KeyLeft(repeat) ==
    /\ KeyDown("left", repeat)
    /\ client' = ctrlBack(Event(client, "left", repeat))
    /\ UNCHANGED serverVars

KeyRight(repeat) ==
    /\ KeyDown("right", repeat)
    /\ client' = ctrlForward(Event(client, "right", repeat))
    /\ UNCHANGED serverVars

KeyBackspace(repeat) ==
    /\ KeyDown("backspace", repeat)
    /\ client' = IF noRepeat(repeat)
                 THEN ctrlReview(Event(client, "backspace", repeat), FALSE)
                 ELSE Event(client, "backspace", repeat)
    /\ UNCHANGED serverVars

KeyEnter(repeat) ==
    /\ KeyDown("enter", repeat)
    /\ client' = IF noRepeat(repeat)
                 THEN ctrlReview(Event(client, "enter", repeat), TRUE)
                 ELSE Event(client, "enter", repeat)
    /\ UNCHANGED serverVars

\* 'a' clicks the page's analyse link
KeyA(repeat) ==
    /\ KeyDown("a", repeat)
    /\ client' = [Event(client, "a", repeat) EXCEPT !.clicks = @ + 1]
    /\ UNCHANGED serverVars

\* the held key is released
KeyUp ==
    /\ client.held # "none"
    /\ client' = [client EXCEPT !.held = "none"]
    /\ UNCHANGED serverVars

\* the oldest submission in flight is answered with the next boot payload:
\* the controller replaces its data with it
ReviewAnswered(next) ==
    /\ client.pending # <<>>
    /\ client' = [client EXCEPT !.pending = Tail(@),
                                !.data = ServerData(client.data.username, next),
                                !.cursor = 0,
                                !.error = FALSE]
    /\ UNCHANGED serverVars

\* the oldest submission in flight fails: the data stays, the error shows
ReviewFailed ==
    /\ client.pending # <<>>
    /\ client' = [client EXCEPT !.pending = Tail(@), !.error = TRUE]
    /\ UNCHANGED serverVars

(***************************************************************************)
(* The specification.                                                      *)
(***************************************************************************)
\* a review left by an earlier run of the server
EarlierReview ==
    [by |-> Some("alice"), score |-> Num(3), comment |-> "ok", rating |-> Num(9)]

Init ==
    /\ reviews \in [PuzzleIds -> { <<>>, <<EarlierReview>> }]
    /\ authStore = (SavedAuthId :> [token |-> "token-alice", username |-> "alice"])
    /\ session \in [Sessions -> { MissingAuthId, StaleAuthId, SavedAuthId }]
    /\ req = [r \in Requests |-> Idle]
    /\ log = {}
    /\ getCalls = {}
    /\ client = Started(ServerData("alice", 1))

Next ==
    \/ \E r \in Requests, s \in Sessions : GetRoot(r, s)
    \/ \E r \in Requests, s \in Sessions, id \in IdParams : GetPuzzle(r, s, id)
    \/ \E r \in Requests : RenderPuzzle(r)
    \/ \E r \in Requests, s \in Sessions, id \in IdParams : PostReview(r, s, id)
    \/ \E r \in Requests : ReviewUsername(r)
    \/ \E r \in Requests : ReviewAppend(r)
    \/ \E r \in Requests : ReviewNext(r)
    \/ \E r \in Requests, s \in Sessions : Logout(r, s)
    \/ \E r \in Requests, s \in Sessions : Auth(r, s)
    \/ \E r \in Requests, s \in Sessions, code \in Codes : OauthCallback(r, s, code)
    \/ \E r \in Requests : OauthUserInfo(r)
    \/ \E r \in Requests : OauthSave(r)

Spec == Init /\ [][Next]_vars

\* the page alone: started from any boot payload, with the server at rest
ClientInit ==
    /\ reviews = [p \in PuzzleIds |-> <<>>]
    /\ authStore = (SavedAuthId :> [token |-> "token-alice", username |-> "alice"])
    /\ session = [s \in Sessions |-> SavedAuthId]
    /\ req = [r \in Requests |-> Idle]
    /\ log = {}
    /\ getCalls = {}
    /\ \E puzzle \in PuzzleIds : client = Started(ServerData("alice", puzzle))

ClientNext ==
    \/ \E repeat \in BOOLEAN : KeyLeft(repeat)
    \/ \E repeat \in BOOLEAN : KeyRight(repeat)
    \/ \E repeat \in BOOLEAN : KeyBackspace(repeat)
    \/ \E repeat \in BOOLEAN : KeyEnter(repeat)
    \/ \E repeat \in BOOLEAN : KeyA(repeat)
    \/ KeyUp
    \/ \E next \in PuzzleIds : ReviewAnswered(next)
    \/ ReviewFailed

ClientSpec == ClientInit /\ [][ClientNext]_vars

\* the server with its scheduling: an awaited adapter call settles, and the
\* event loop then runs the handler that awaits it
FairSpec ==
    /\ Spec
    /\ \A r \in Requests :
          /\ WF_vars(RenderPuzzle(r))
          /\ WF_vars(ReviewUsername(r))
          /\ WF_vars(ReviewAppend(r))
          /\ WF_vars(ReviewNext(r))
          /\ WF_vars(OauthUserInfo(r))
          /\ WF_vars(OauthSave(r))

(***************************************************************************)
(* Properties.                                                             *)
(***************************************************************************)
IsReviewRequest(r) == req[r].route = "/review/:id"
IsPageRequest(r)   == req[r].route \in { "/", "/puzzle/:id" }

\* the usernames of the saved credentials
SavedUsernames == { authStore[a].username : a \in DOMAIN authStore }

\* the path parameter names a puzzle of the store
IdPresent(id) == \E p \in PuzzleIds : parseInt(id) = Num(p)

\* request r is the request whose handler appended review to puzzle p in
\* this step
AppendedBy(r, p) ==
    /\ IsReviewRequest(r)
    /\ req[r].pc = "review"
    /\ req'[r].pc = "next"
    /\ req[r].puzzle = Some(p)
    /\ Len(reviews'[p]) = Len(reviews[p]) + 1
    /\ SubSeq(reviews'[p], 1, Len(reviews[p])) = reviews[p]
    /\ \A q \in PuzzleIds \ {p} : reviews'[q] = reviews[q]

\* C1: every stored review carries a non-empty resolved username in `by`,
\* and the collection of reviews changes only by a POST /review/:id handler
\* appending one review to the puzzle its lookup found, signed with the
\* non-empty username its session's authId resolved to.
C1_ReviewsOnlyForFoundPuzzleAndResolvedUser ==
    /\ [](\A p \in PuzzleIds : \A i \in 1..Len(reviews[p]) :
            /\ reviews[p][i].by # None
            /\ reviews[p][i].by # Some("")
            /\ Get(reviews[p][i].by) \in SavedUsernames)
    /\ [][reviews' # reviews =>
            \E r \in Requests, p \in PuzzleIds :
               /\ AppendedBy(r, p)
               /\ parseInt(req[r].id) = Num(p)
               /\ ~NoUsername(req[r].username)
               /\ Get(req[r].username) \in SavedUsernames
               /\ reviews'[p][Len(reviews'[p])].by = req[r].username]_vars

\* a review request appended its review, for a user who logged in through
\* the OAuth callback
C1_Witness ==
    \E r \in Requests, p \in PuzzleIds :
       /\ IsReviewRequest(r)
       /\ req[r].pc \in { "next", "done" }
       /\ req[r].query # None
       /\ req[r].puzzle = Some(p)
       /\ reviews[p] # <<>>
       /\ reviews[p][Len(reviews[p])].by = Some("bob")

\* C2: a GET /puzzle/:id or POST /review/:id whose id names no puzzle of the
\* store is answered 404 as soon as the lookup returns, whatever the session
\* holds, and it writes nothing to the store.
C2_MissingPuzzleIs404 ==
    /\ [](\A r \in Requests :
            (req[r].route \in { "/puzzle/:id", "/review/:id" } /\ ~IdPresent(req[r].id))
            => /\ req[r].pc = "done"
               /\ req[r].resp = End(404)
               /\ req[r].query = None)
    /\ [][\A r \in Requests :
            (/\ req[r].pc = "idle"
             /\ req'[r].route \in { "/puzzle/:id", "/review/:id" }
             /\ ~IdPresent(req'[r].id))
            => /\ reviews' = reviews
               /\ authStore' = authStore]_vars

\* both routes have answered 404 for a missing id, one of them on a session
\* that is logged in
C2_Witness ==
    \E r1, r2 \in Requests :
       /\ req[r1].route = "/puzzle/:id" /\ req[r1].resp = End(404)
       /\ req[r2].route = "/review/:id" /\ req[r2].resp = End(404)
       /\ req[r2].id = <<"3">>
       /\ session[req[r2].sess] = SavedAuthId

\* the handler of request r runs in this step
Runs(r) == req'[r] # req[r]

\* the handler of request r sends its response in this step
Responds(r) == Runs(r) /\ req'[r].pc = "done"

\* session s carries no identity: its authId is missing, empty, or names no
\* saved credential
Unauthenticated(s) ==
    \/ session[s] \in { MissingAuthId, "" }
    \/ session[s] \notin DOMAIN authStore

IsPuzzleContent(resp) ==
    /\ resp.kind = "send"
    /\ resp.body # htmlPage(LoginPrompt)

\* C3 as stated: whenever a page route answers on an unauthenticated session
\* the answer is the login prompt, and whenever the review route answers on
\* one before the review is appended the answer is 403.
C3_Original ==
    [][\A r \in Requests :
         (/\ Responds(r)
          /\ req[r].pc \in { "idle", "render", "username" }
          /\ Unauthenticated(req'[r].sess))
         => /\ IsPageRequest(r)' => req'[r].resp = Send(htmlPage(LoginPrompt))
            /\ IsReviewRequest(r)' => req'[r].resp = End(403)]_vars

\* C3 (amended): on an unauthenticated session a page route whose puzzle was
\* found answers with the login prompt, the review route whose puzzle was
\* found answers 403 and appends nothing, both answer 404 when no puzzle was
\* found, and no answer carries puzzle content.
C3_UnauthenticatedNeverSeesPuzzle ==
    [][\A r \in Requests :
         (Runs(r) /\ Unauthenticated(req'[r].sess))
         => /\ req[r].pc = "render"
               => Responds(r) /\ req'[r].resp = Send(htmlPage(LoginPrompt))
            /\ req[r].pc = "username"
               => Responds(r) /\ req'[r].resp = End(403) /\ reviews' = reviews
            /\ (req[r].pc = "idle" /\ (IsPageRequest(r)' \/ IsReviewRequest(r)'))
               => \/ Responds(r) /\ req'[r].resp = End(404)
                  \/ req'[r].pc \in { "render", "username" } /\ req'[r].puzzle # None
            /\ req[r].pc \in { "idle", "render", "username" }
               => ~IsPuzzleContent(req'[r].resp)]_vars

\* all three routes have answered on sessions that carry no identity: a login
\* prompt for a page and 403 for a review
C3_Witness ==
    \E r1, r2 \in Requests :
       /\ IsPageRequest(r1) /\ req[r1].resp = Send(htmlPage(LoginPrompt))
       /\ IsReviewRequest(r2) /\ req[r2].resp = End(403)
       /\ Unauthenticated(req[r1].sess)

MalformedQuery(query) ==
    \/ ~IsIntString(query.score)
    \/ ~IsIntString(query.rating)

\* C5: a review request whose score or rating is missing or not an integer
\* string is rejected: its review is not appended and it is not answered 200.
C5_MalformedIntegersRejected ==
    \A r \in Requests :
       (/\ IsReviewRequest(r)
        /\ req[r].query # None
        /\ MalformedQuery(Get(req[r].query)))
       => /\ req[r].pc # "next"
          /\ req[r].resp.kind # "send"
          /\ \A i \in 1..Len(reviews[Get(req[r].puzzle)]) :
                reviews[Get(req[r].puzzle)][i] #
                   ReviewOf(req[r].username, Get(req[r].query))

IsLogout(r)   == req[r].route = "/logout"
IsCallback(r) == req[r].route = "/oauth-callback"

\* C6 as stated: GET /logout always clears the session and redirects to /,
\* and whenever GET / answers on a session whose authId is cleared the answer
\* is the login prompt.
C6_Original ==
    [][\A r \in Requests :
         /\ (Runs(r) /\ IsLogout(r)')
            => /\ session' = [session EXCEPT ![req'[r].sess] = ""]
               /\ req'[r].resp = Redirect("/")
         /\ (Responds(r) /\ req'[r].route = "/" /\ session[req'[r].sess] = "")
            => req'[r].resp = Send(htmlPage(LoginPrompt))]_vars

\* C6 (amended): GET /logout answers at once with a redirect to / and leaves
\* the session's authId empty whatever it held before (missing, empty,
\* stale or valid), touching nothing else; GET / on a session whose authId
\* is empty answers with the login prompt when the store has a next puzzle
\* and with 404 when it has none.
C6_LogoutThenLoginPrompt ==
    [][\A r \in Requests :
         /\ (Runs(r) /\ IsLogout(r)')
            => /\ req[r].pc = "idle"
               /\ Responds(r)
               /\ req'[r].resp = Redirect("/")
               /\ session' = [session EXCEPT ![req'[r].sess] = ""]
               /\ UNCHANGED <<reviews, authStore>>
         /\ (Runs(r) /\ req'[r].route = "/" /\ session[req'[r].sess] = "")
            => \/ /\ req[r].pc = "idle"
                  /\ \E p \in PuzzleIds : reviews[p] = <<>>
                  /\ req'[r].pc = "render"
               \/ /\ req[r].pc = "idle"
                  /\ \A p \in PuzzleIds : reviews[p] # <<>>
                  /\ Responds(r)
                  /\ req'[r].resp = End(404)
               \/ /\ req[r].pc = "render"
                  /\ Responds(r)
                  /\ req'[r].resp = Send(htmlPage(LoginPrompt))]_vars

\* a session was logged out and the GET / that followed on it got the login
\* prompt
C6_Witness ==
    \E r1, r2 \in Requests :
       /\ r1 < r2
       /\ IsLogout(r1) /\ req[r1].resp = Redirect("/")
       /\ req[r2].route = "/" /\ req[r2].sess = req[r1].sess
       /\ req[r2].resp = Send(htmlPage(LoginPrompt))
       /\ session[req[r1].sess] = ""

\* the handler of callback request r ends in this step without a credential
\* having been persisted: one of its three awaited calls rejected
CallbackFails(r) ==
    /\ Responds(r)
    /\ IsCallback(r)'
    /\ ~(req[r].pc = "save" /\ authStore' # authStore)

\* C7: when the OAuth callback fails at the token exchange, the user-info
\* lookup or the save, the session and the auth store are left as they were
\* and the answer is 500 with the fixed message, which is neither the code,
\* the token nor the error's message.
C7_CallbackFailureIsGeneric ==
    [][\A r \in Requests :
         CallbackFails(r)
         => /\ session' = session
            /\ authStore' = authStore
            /\ req'[r].resp = Json(500, AuthFailedMessage)
            /\ req'[r].resp.body # req'[r].code
            /\ req'[r].token # None => req'[r].resp.body # Get(req'[r].token).token
            /\ \A line \in log' :
                  AccessTokenError(req'[r].resp.body) # line]_vars

\* a callback failed after its token exchange and user-info lookup succeeded
\* and another failed at the token exchange
C7_Witness ==
    \E r1, r2 \in Requests :
       /\ IsCallback(r1) /\ req[r1].user # None /\ req[r1].resp.kind = "json"
       /\ IsCallback(r2) /\ req[r2].token = None /\ req[r2].resp.kind = "json"

\* C8: a review request whose append failed has been answered with an error:
\* it is never left without a response, and never answered 200.
C8_AppendFailureSurfaced ==
    \A r \in Requests :
       req[r].pc = "rejected"
       => /\ req[r].resp.kind # "none"
          /\ req[r].resp.status >= 400

\* C9: the store's get-by-id is only ever called with a non-negative integer.
C9_IdRejectedBeforeStore ==
    \A id \in getCalls : id # NaN /\ id[2] >= 0

\* C10: a session's authId changes only when GET /logout sets it to the empty
\* string or when a GET /oauth-callback whose save succeeded sets it to the
\* authId just saved; and those two always set it so.
C10_SessionChangesOnlyByLogoutAndCallback ==
    [][/\ \A s \in Sessions :
            session'[s] # session[s]
            => \E r \in Requests :
                  /\ Responds(r)
                  /\ req'[r].sess = s
                  /\ \/ IsLogout(r)' /\ session'[s] = ""
                     \/ /\ IsCallback(r)'
                        /\ req'[r].resp = Redirect("/")
                        /\ session'[s] \notin DOMAIN authStore
                        /\ session'[s] \in DOMAIN authStore'
                        /\ authStore'[session'[s]].username = Get(req[r].user).username
       /\ \A r \in Requests :
            Responds(r)
            => /\ IsLogout(r)' => session'[req'[r].sess] = ""
               /\ (IsCallback(r)' /\ req'[r].resp = Redirect("/"))
                  => session'[req'[r].sess] \in DOMAIN authStore' \ DOMAIN authStore]_vars

\* a callback logged a session in as bob after a failed callback had left it
\* alone
C10_Witness ==
    \E r1, r2 \in Requests, s \in Sessions :
       /\ r1 < r2
       /\ IsCallback(r1) /\ req[r1].sess = s /\ req[r1].resp.kind = "json"
       /\ IsCallback(r2) /\ req[r2].sess = s /\ req[r2].resp = Redirect("/")
       /\ session[s] \in DOMAIN authStore
       /\ authStore[session[s]].username = "bob"

\* the review this request handed to the store is stored on its puzzle
ReviewStored(r) ==
    \E i \in 1..Len(reviews'[Get(req[r].puzzle)]) :
       reviews'[Get(req[r].puzzle)][i] =
          ReviewOf(req[r].username, Get(req[r].query))

\* C12: a review request runs lookup, username resolution, append and
\* next-puzzle fetch in that order, each ending the request (404, 403, a
\* rejected append) or leading to the very next one; the store changes in
\* the append only; the fetch that follows a successful append is the
\* request's last step: it answers 404 when the store has no next puzzle,
\* with the review just appended still stored, and the JSON of {username,
\* puzzle: next} otherwise; a request that has answered runs no more; and
\* every request whose append succeeded does get to its fetch and answers.
C12_ReviewStepsInOrder ==
    /\ \A q \in Requests :
          (IsReviewRequest(q) /\ req[q].pc = "next") ~> (req[q].pc = "done")
    /\ [][\A r \in Requests :
         (Runs(r) /\ IsReviewRequest(r)')
         => \/ /\ req[r].pc = "idle"
               /\ parseInt(req'[r].id) \in getCalls'
               /\ req'[r].username = None /\ req'[r].query = None
               /\ reviews' = reviews
               /\ \/ /\ Responds(r) /\ req'[r].resp = End(404)
                     /\ PuzzleGet(parseInt(req'[r].id)) = None
                  \/ /\ req'[r].pc = "username"
                     /\ req'[r].puzzle = PuzzleGet(parseInt(req'[r].id))
                     /\ req'[r].puzzle # None
            \/ /\ req[r].pc = "username"
               /\ req'[r].query = None
               /\ reviews' = reviews
               /\ \/ Responds(r) /\ req'[r].resp = End(403)
                  \/ req'[r].pc = "review" /\ ~NoUsername(req'[r].username)
            \/ /\ req[r].pc = "review"
               /\ \/ req'[r].pc = "next" /\ AppendedBy(r, Get(req[r].puzzle))
                  \/ req'[r].pc = "rejected" /\ reviews' = reviews
            \/ /\ req[r].pc = "next"
               /\ Responds(r)
               /\ reviews' = reviews
               /\ ReviewStored(r)
               /\ \/ /\ req'[r].resp = End(404)
                     /\ \A p \in PuzzleIds : reviews[p] # <<>>
                  \/ \E next \in PuzzleIds :
                        /\ reviews[next] = <<>>
                        /\ req'[r].resp =
                             Send(JSONstringify([username |-> req[r].username,
                                                 puzzle   |-> Some(next)]))]_vars

\* a request appended its review and its fetch then found no next puzzle:
\* it answered 404 and the review is stored
C12_Witness ==
    \E r \in Requests :
       /\ IsReviewRequest(r)
       /\ req[r].query # None
       /\ req[r].pc = "done"
       /\ req[r].resp = End(404)
       /\ reviews[Get(req[r].puzzle)] # <<>>
       /\ reviews[Get(req[r].puzzle)][Len(reviews[Get(req[r].puzzle)])].by
             = req[r].username

\* the answer renderPuzzle's decision gives for a puzzle and a username
PageDecision(puzzle, username) ==
    IF puzzle = None
    THEN End(404)
    ELSE IF username = None \/ username = Some("")
         THEN Send(htmlPage(LoginPrompt))
         ELSE Send(htmlPage(InteractivePage(
                  [username |-> username, puzzle |-> puzzle])))

\* C13: GET / (with the store's next puzzle) and GET /puzzle/:id (with the
\* puzzle of that id) answer by one decision: 404 exactly when no puzzle
\* was found, and then in the lookup's own step, before any username is
\* resolved; the login prompt exactly when a puzzle was found and the
\* session's authId resolves to no username; the interactive page with
\* exactly {username, puzzle} when both are there.
C13_PageDecision ==
    /\ [](\A r \in Requests :
            (IsPageRequest(r) /\ req[r].pc = "done")
            => /\ req[r].resp = PageDecision(req[r].puzzle, req[r].username)
               /\ req[r].resp = End(404) <=> req[r].puzzle = None
               /\ req[r].resp = Send(htmlPage(LoginPrompt))
                     <=> (req[r].puzzle # None /\ NoUsername(req[r].username)))
    /\ [][\A r \in Requests :
            (Runs(r) /\ IsPageRequest(r)')
            => \/ /\ req[r].pc = "idle"
                  /\ req'[r].username = None
                  /\ LET found == IF req'[r].route = "/"
                                  THEN { Some(p) : p \in { q \in PuzzleIds :
                                                             reviews[q] = <<>> } }
                                  ELSE { Some(p) : p \in { q \in PuzzleIds :
                                             parseInt(req'[r].id) = Num(q) } }
                     IN  \/ /\ found = {}
                            /\ Responds(r)
                            /\ req'[r].puzzle = None
                         \/ /\ req'[r].puzzle \in found
                            /\ req'[r].pc = "render"
               \/ /\ req[r].pc = "render"
                  /\ Responds(r)
                  /\ req'[r].puzzle = req[r].puzzle
                  /\ req'[r].username =
                        (IF session[req[r].sess] \in DOMAIN authStore
                         THEN Some(authStore[session[req[r].sess]].username)
                         ELSE None)]_vars

\* the front page answered with the interactive page for alice and a
\* puzzle-by-id page answered with the login prompt
C13_Witness ==
    \E r1, r2 \in Requests, p \in PuzzleIds :
       /\ req[r1].route = "/"
       /\ req[r1].resp = Send(htmlPage(InteractivePage(
                             [username |-> Some("alice"), puzzle |-> Some(p)])))
       /\ req[r2].route = "/puzzle/:id"
       /\ req[r2].resp = Send(htmlPage(LoginPrompt))

\* the identity the provider reports for an authorization code
ProviderUsername(code) == IF code = "code-bob" THEN "bob" ELSE ""

\* C14: a callback runs token exchange, user-info lookup and save in that
\* order; when the save succeeds the same step stores (token, username)
\* under a new authId, sets the session's authId to it and redirects to /,
\* so that the session's authId resolves to the username the provider
\* reported; saved credentials never change afterwards; and GET / on a
\* session whose authId resolves, with a puzzle found, answers with the
\* interactive page for that username and not the login prompt.
C14_CallbackLogsSessionIn ==
    [][/\ \A a \in DOMAIN authStore :
            a \in DOMAIN authStore' /\ authStore'[a] = authStore[a]
       /\ \A r \in Requests :
            (Runs(r) /\ IsCallback(r)')
            => \/ /\ req[r].pc = "idle"
                  /\ req'[r].user = None
                  /\ UNCHANGED <<session, authStore>>
                  /\ \/ req'[r].pc = "userinfo" /\ req'[r].token # None
                     \/ Responds(r) /\ req'[r].resp.status = 500
               \/ /\ req[r].pc = "userinfo"
                  /\ req[r].token # None
                  /\ UNCHANGED <<session, authStore>>
                  /\ \/ /\ req'[r].pc = "save"
                        /\ req'[r].user =
                              Some([username |-> ProviderUsername(req[r].code)])
                     \/ Responds(r) /\ req'[r].resp.status = 500
               \/ /\ req[r].pc = "save"
                  /\ req[r].user # None
                  /\ Responds(r)
                  /\ \/ /\ req'[r].resp = Redirect("/")
                        /\ session'[req[r].sess] \notin DOMAIN authStore
                        /\ DOMAIN authStore' =
                              DOMAIN authStore \cup { session'[req[r].sess] }
                        /\ authStore'[session'[req[r].sess]] =
                              [token    |-> Get(req[r].token).token,
                               username |-> ProviderUsername(req[r].code)]
                        /\ \A s \in Sessions \ { req[r].sess } :
                              session'[s] = session[s]
                     \/ /\ req'[r].resp.status = 500
                        /\ UNCHANGED <<session, authStore>>
       /\ \A r \in Requests :
            (/\ Runs(r)
             /\ req[r].route = "/"
             /\ req[r].pc = "render"
             /\ session[req[r].sess] \in DOMAIN authStore)
            => req'[r].resp =
                 Send(htmlPage(InteractivePage(
                     [username |-> Some(authStore[session[req[r].sess]].username),
                      puzzle   |-> req[r].puzzle])))]_vars

\* bob logged in through the callback and the GET / that followed on his
\* session got the interactive page for bob
C14_Witness ==
    \E r1, r2 \in Requests, p \in PuzzleIds :
       /\ r1 < r2
       /\ IsCallback(r1) /\ req[r1].resp = Redirect("/")
       /\ req[r2].route = "/" /\ req[r2].sess = req[r1].sess
       /\ req[r2].resp = Send(htmlPage(InteractivePage(
                             [username |-> Some("bob"), puzzle |-> Some(p)])))
       /\ authStore[session[req[r1].sess]].username = "bob"

\* the responses the six routes send
IsOneResponse(resp) ==
    \/ resp.kind = "end" /\ resp.status \in { 403, 404 }
    \/ resp.kind = "send" /\ resp.status = 200
    \/ resp.kind = "json"
    \/ resp.kind = "redirect"

\* C15: a request that has been received and whose handler has not returned
\* has sent nothing; a handler that returned sent exactly one response, of
\* one of the kinds the routes send; a handler stops without returning only
\* in the step in which the review write fails; and every received request
\* whose adapter calls succeed ends with its handler returned.
C15_ExactlyOneResponse ==
    /\ [](\A r \in Requests :
            /\ req[r].sent <= 1
            /\ req[r].pc = "done"
                 => /\ req[r].sent = 1
                    /\ req[r].route \in Routes
                    /\ IsOneResponse(req[r].resp)
            /\ req[r].pc \notin { "done", "rejected" }
                 => req[r].sent = 0 /\ req[r].resp = NoResponse)
    /\ [][\A r \in Requests :
            /\ (Runs(r) /\ req'[r].pc = "rejected")
                 => req[r].pc = "review" /\ reviews' = reviews
            /\ (Runs(r) /\ req[r].pc \in { "done", "rejected" }) => FALSE]_vars
    /\ \A r \in Requests :
          (req[r].pc # "idle") ~> (req[r].pc \in { "done", "rejected" })

\* a review and a logout have each been answered, once
C15_Witness ==
    \E r1, r2 \in Requests :
       /\ r1 # r2
       /\ req[r1].pc = "done" /\ req[r1].sent = 1
       /\ req[r2].pc = "done" /\ req[r2].sent = 1
       /\ req[r1].route = "/review/:id" /\ req[r1].resp.kind = "send"
       /\ req[r2].route = "/logout" /\ req[r2].resp.kind = "redirect"

(***************************************************************************)
(* Properties of the client.                                               *)
(***************************************************************************)
\* a key event is handled in this step
KeyEvent(k, repeat) ==
    /\ client'.events = client.events + 1
    /\ client'.event = [key |-> k, repeat |-> repeat]

\* this step makes exactly one more controller call, method(arg)
OneCall(method) ==
    /\ Len(client'.calls) = Len(client.calls) + 1
    /\ SubSeq(client'.calls, 1, Len(client.calls)) = client.calls
    /\ client'.calls[Len(client'.calls)].method = method

\* the call this step made was ctrl.review(accept)
ReviewCalled(accept) ==
    /\ OneCall("review")
    /\ client'.calls[Len(client'.calls)].arg = accept
    /\ client'.posts = client.posts + 1

\* C16: an Enter or Backspace key event that is not an auto-repeat calls
\* ctrl.review once, with true for Enter and false for Backspace; one that is
\* an auto-repeat calls nothing; a Left or Right key event, auto-repeat or
\* not, calls ctrl.back or ctrl.forward once; and the page posts to the
\* server in a key event only through the call of ctrl.review.
C16_KeyBindings ==
    [][\A repeat \in BOOLEAN :
          /\ KeyEvent("enter", repeat)
               => IF repeat
                  THEN client'.calls = client.calls /\ client'.posts = client.posts
                  ELSE ReviewCalled(TRUE)
          /\ KeyEvent("backspace", repeat)
               => IF repeat
                  THEN client'.calls = client.calls /\ client'.posts = client.posts
                  ELSE ReviewCalled(FALSE)
          /\ KeyEvent("left", repeat)
               => OneCall("back") /\ client'.posts = client.posts
          /\ KeyEvent("right", repeat)
               => OneCall("forward") /\ client'.posts = client.posts
          /\ KeyEvent("a", repeat)
               => client'.calls = client.calls /\ client'.posts = client.posts]_vars

\* Enter was pressed and held and has auto-repeated: one review call, one
\* submission posted
C16_Witness ==
    /\ client.event = [key |-> "enter", repeat |-> TRUE]
    /\ client.posts = 1
    /\ Len(client.calls) = 1
    /\ client.calls[1].method = "review"
    /\ client.calls[1].arg = TRUE

\* C11: the page never has two review submissions in flight.
C11_OneSubmissionInFlight == Len(client.pending) <= 1

====
